---- MODULE Spec2Model ----
(***************************************************************************)
(* CopyOnWrite<T> (src/copy_on_write.hpp): one shared value, read without  *)
(* locking through a reference-counted handle and replaced under a mutex.  *)
(*                                                                         *)
(* The 64-bit word addressAndCopyCounter is modelled as a record           *)
(*   [top |-> bits 48..63, bit47 |-> bit 47, rest |-> bits 0..46].         *)
(* An Internal* is a canonical address: a positive index p stands for an   *)
(* address of the low half (bit 47 and the top 16 bits clear), a negative  *)
(* index -p for the address of the high half (bit 47 and the top 16 bits   *)
(* set) whose bits 0..46 are abstracted to p.                              *)
(* Every atomic access of the source is one step of the model; a step of   *)
(* a frame is one atomic access together with the thread-local code that   *)
(* surrounds it.  T is TestClass reduced to its int field a.               *)
(***************************************************************************)
EXTENDS Integers, FiniteSets, Sequences, TLC

\* ---------------------------------------------------------------- bounds
NumAddr == 3        \* heap cells that `new Internal` can return
MaxValue == 2       \* maxValue of the test's predicate; payloads are 0..MaxValue

\* ----------------------------------------------------- program constants
CounterMod == 65536 \* the in-flight field is the 16 bits above bit 47

\* Frames 1 and 2 are threads.  Frame 0 is a call made from inside thread 1's
\* verifier or modifier (parent[0] = 1), or a third thread (parent[0] = NoParent).
Threads == {1, 2}
InnerFrame == 0
Frames == {InnerFrame} \cup Threads
NoParent == -1
Addr == 1..NumAddr
NullPtr == 0
Values == 0..MaxValue
NoOwner == -1
NoSample == -1
NoHandle == -1
NoRet == [frame |-> -1, kind |-> "none", result |-> "none", mods |-> 0]

VARIABLES
  addressAndCopyCounter,  \* the packed word: [top, low]
  previousCopyCounter,    \* std::atomic_int, may be negative
  editMutex,              \* NoOwner or the frame that holds the lock
  heap,                   \* Addr -> [live, refcount, instance]
  pc,                     \* Frames -> position in the running call
  call,                   \* Frames -> the running call's arguments
  value,                  \* safeInstance: local `value`
  decrementee,            \* safeInstance: local `decrementee`
  original,               \* replace: local `original`
  replacement,            \* replace: local `replacement` / DuplicateHolder.duplicate
  oldValue,               \* replace: local `oldValue`
  handle,                 \* Frames -> CopyOnWriteStateReference::instance held by the frame
  sample,                 \* the payload the step just taken read through a handle
  ret,                    \* what the step just taken returned to its caller
  modCalls,               \* Frames -> modifier invocations of the running call
  seenCur,                \* Frames -> snapshots that were current during the running get()
  parent,                 \* Frames -> the frame whose callback made the call, or NoParent
  role,                   \* Frames -> what the frame's caller does: "any" call, only
                          \* mutating calls ("writer"), only get() ("reader"), the
                          \* test's "updater" loop, or that loop "finished"
  trueCount,              \* number of the updater loops' calls that returned true
  minValue,               \* the constructor's argument (the stress tests' minValue)
  officialValue,          \* the test's std::atomic_int officialValue
  starting,               \* Frames -> the exporter's local `starting`
  copy,                   \* Frames -> the test's local `copy` (the sampled tested->a)
  previous,               \* Frames -> the test's local `previous`
  other,                  \* Frames -> a second handle object of the frame: NoHandle
                          \* before it is constructed, NullPtr once moved from
  alive,                  \* FALSE once ~CopyOnWrite has started
  lastReferenced,         \* ~CopyOnWrite: local `lastReferenced`
  fault,                  \* a reclaimed Internal has been read or written
  crowd                   \* further threads, not stepped here, that sit between the
                          \* increment and the refcount++ of safeInstance

vars == <<addressAndCopyCounter, previousCopyCounter, editMutex, heap, pc, call,
          value, decrementee, original, replacement, oldValue, handle, sample,
          ret, modCalls, seenCur, parent, role, trueCount, minValue,
                 officialValue, starting, copy, previous, other, alive,
                 lastReferenced, fault, crowd>>

\* ------------------------------------------------------------ data model
NoWord == [top |-> 0, bit47 |-> FALSE, rest |-> 0]
FreeCell == [live |-> FALSE, refcount |-> 0, instance |-> 0]
NoCall == [kind |-> "none", modifier |-> "none", verifier |-> "always", arg |-> 0]

\* struct Internal: refcount = 1, instance constructed from the argument
Internal(x) == [live |-> TRUE, refcount |-> 1, instance |-> x]

\* the addresses of the high half
HighAddr == {-p : p \in Addr}

\* reinterpret_cast<uint64_t>(Internal*): all 64 bits of the pointer
PointerWord(p) ==
  [top |-> IF p < 0 THEN CounterMod - 1 ELSE 0,
   bit47 |-> p < 0,
   rest |-> IF p < 0 THEN -p ELSE p]

\* value + increment and value - increment on the 64-bit word: the carry out of
\* bit 63 is lost and the 48 address bits are left alone
AddIncrement(w) == [w EXCEPT !.top = (@ + 1) % CounterMod]
SubIncrement(w) == [w EXCEPT !.top = (@ + CounterMod - 1) % CounterMod]

\* value + k * increment: the word after k increments
PlusCount(w, k) == [w EXCEPT !.top = (@ + k) % CounterMod]

\* value & suffix
Suffix(w) == [bit47 |-> w.bit47, rest |-> w.rest]

\* getPointer: value |= prefix when bit 47 is set, value &= suffix otherwise
getPointer(w) == IF w.bit47 THEN -(w.rest) ELSE w.rest

\* oldValue >> 48
Abandoned(w) == w.top

\* p is not an Internal any more: reading or writing *p is a use after free.
\* The model records it in `fault` and leaves the freed cell as it is.
Reclaimed(h, p) == ~h[p].live

\* mutant: the count is decremented and the Internal is never deleted
getRidOfPointerKeep(h, p) ==
  IF ~h[p].live THEN h ELSE [h EXCEPT ![p].refcount = @ - 1]

\* --refcount, then delete when it reached zero
getRidOfPointer(h, p) ==
  IF ~h[p].live THEN h
  ELSE IF h[p].refcount - 1 = 0 THEN [h EXCEPT ![p] = FreeCell]
  ELSE [h EXCEPT ![p].refcount = @ - 1]

\* obtained->refcount++
IncRefcount(h, p) ==
  IF ~h[p].live THEN h ELSE [h EXCEPT ![p].refcount = @ + 1]

\* the caller's callbacks, as in the tests
Modifier(m, x) == IF m = "inc" THEN x + 1 ELSE x

\* mutant: the modifier forgets to record the value it is about to publish
OfficialStale(m, o, x) == o

\* what the modifier leaves in officialValue: officialValue = made.a
Official(m, o, x) == IF m = "official" THEN x ELSE o
Verifier(v, x) == IF v = "ltMax" THEN x < MaxValue ELSE TRUE
AlwaysPassingVerifier == "always"

\* mutant: edit builds its draft from the arguments instead of copying
DuplicateArgs(c, old) == c.arg

\* what the creator lambda builds before the modifier runs
Duplicate(c, old) == IF c.kind \in {"edit", "tryEdit"} THEN old ELSE c.arg

HasModifier(c) == c.kind # "emplace"

\* the calls the threads make
Calls ==
  {[kind |-> "emplace", modifier |-> "none", verifier |-> AlwaysPassingVerifier, arg |-> a] :
      a \in Values}
  \cup {[kind |-> k, modifier |-> "inc", verifier |-> "ltMax", arg |-> 0] :
      k \in {"edit", "tryEdit"}}
  \cup {[kind |-> "reset", modifier |-> "inc", verifier |-> AlwaysPassingVerifier,
          arg |-> a] : a \in 0..(MaxValue - 1)}
  \cup {[kind |-> "tryReset", modifier |-> "inc", verifier |-> "ltMax", arg |-> a] :
          a \in 0..(MaxValue - 1)}

\* the stress test's loop body: edit(a++, before.a < maxValue)
UpdaterCall == [kind |-> "edit", modifier |-> "inc", verifier |-> "ltMax", arg |-> 0]

\* the call of a thread that only writes: edit(a++, before.a < maxValue)
WriterCall == UpdaterCall

\* the many-readers test's loop body: reset(officialValue = made.a, true, previous + 1)
ConfirmCall(a) ==
  [kind |-> "reset", modifier |-> "official", verifier |-> AlwaysPassingVerifier, arg |-> a]

\* what the caller of a frame does next when it calls get()
GetRoles == {"any", "reader", "holder", "exp_get", "cf_cond", "cf_prev"}

Blocking(c) == c.kind \in {"emplace", "reset", "edit"}

\* A nested frame runs inside its thread's verifier or modifier; the thread
\* resumes once the nested call has returned.
InCallback(t) == pc[t] \in {"rp_verify", "rp_modify"}
CanRun(f) ==
  /\ parent[f] # NoParent => InCallback(parent[f])
  /\ \A g \in Frames : parent[g] = f => (pc[g] = "idle" /\ handle[g] = NullPtr)

InReplace(f) ==
  pc[f] \in {"rp_load", "rp_verify", "rp_create", "rp_modify", "rp_exchange",
             "rp_transfer", "rp_wait", "rp_release"}
InGet(f) == pc[f] \in {"si_cas1", "si_inc", "si_load2", "si_cas2"}
InFlight(f) == pc[f] \in {"si_inc", "si_load2", "si_cas2"}

\* -------------------------------------------------------------- Init
\* The container just constructed in a heap whose cells are `cells`, with the
\* first Internal at address a, and then n further threads parked right after
\* the increment of safeInstance.
StartAt(a, cells, n, x, nested, roles) ==
    /\ addressAndCopyCounter = [PointerWord(a) EXCEPT !.top = (@ + n) % CounterMod]
    /\ previousCopyCounter = 0
    /\ editMutex = NoOwner
    /\ heap = [p \in cells |-> IF p = a THEN Internal(x) ELSE FreeCell]
    /\ pc = [f \in Frames |-> "idle"]
    /\ call = [f \in Frames |-> NoCall]
    /\ value = [f \in Frames |-> NoWord]
    /\ decrementee = [f \in Frames |-> NoWord]
    /\ original = [f \in Frames |-> NullPtr]
    /\ replacement = [f \in Frames |-> NullPtr]
    /\ oldValue = [f \in Frames |-> NoWord]
    /\ handle = [f \in Frames |-> NullPtr]
    /\ sample = NoSample
    /\ ret = NoRet
    /\ modCalls = [f \in Frames |-> 0]
    /\ seenCur = [f \in Frames |-> {}]
    /\ parent = [f \in Frames |-> IF f = InnerFrame /\ nested THEN 1 ELSE NoParent]
    /\ role = roles
    /\ trueCount = 0
    /\ minValue = x
    /\ officialValue = x
    /\ starting = [f \in Frames |-> 0]
    /\ copy = [f \in Frames |-> 0]
    /\ previous = [f \in Frames |-> 0]
    /\ other = [f \in Frames |-> NoHandle]
    /\ alive = TRUE
    /\ lastReferenced = NullPtr
    /\ fault = FALSE
    /\ crowd = n

Start(x, nested, roles) == StartAt(1, Addr, 0, x, nested, roles)

\* CopyOnWrite(args...): one Internal built from the argument
Init == \E x \in Values : Start(x, TRUE, [f \in Frames |-> "any"])

\* ------------------------------------------------- get() / safeInstance
\* a step that returns nothing to its caller and reads no payload
Silent == ret' = NoRet /\ sample' = NoSample

\* get() is entered and `value` is loaded
GetLoad(f) ==
  /\ alive /\ pc[f] = "idle" /\ CanRun(f) /\ handle[f] = NullPtr
  /\ role[f] \in GetRoles
  /\ value' = [value EXCEPT ![f] = addressAndCopyCounter]
  /\ seenCur' = [seenCur EXCEPT ![f] = {getPointer(addressAndCopyCounter)}]
  /\ pc' = [pc EXCEPT ![f] = "si_cas1"]
  /\ Silent
  /\ UNCHANGED <<addressAndCopyCounter, previousCopyCounter, editMutex, heap, call,
                 decrementee, original, replacement, oldValue, handle, modCalls,
                 parent, role, trueCount, minValue,
                 officialValue, starting, copy, previous, other, alive,
                 lastReferenced, fault, crowd>>

\* mutant: the increment is a plain store of value + increment, not a compare-exchange
GetIncrementRacy(f) ==
  /\ pc[f] = "si_cas1"
  /\ addressAndCopyCounter' = AddIncrement(value[f])
  /\ pc' = [pc EXCEPT ![f] = "si_inc"]
  /\ Silent
  /\ UNCHANGED <<value, previousCopyCounter, editMutex, heap, call, decrementee,
                 original, replacement, oldValue, handle, modCalls, seenCur,
                 parent, role, trueCount, minValue,
                 officialValue, starting, copy, previous, other, alive,
                 lastReferenced, fault, crowd>>

\* mutant: the reader's increment waits until no writer holds the mutex
GetIncrementLocked(f) ==
  /\ pc[f] = "si_cas1"
  /\ editMutex = NoOwner
  /\ IF addressAndCopyCounter = value[f]
       THEN /\ addressAndCopyCounter' = AddIncrement(value[f])
            /\ pc' = [pc EXCEPT ![f] = "si_inc"]
            /\ UNCHANGED value
       ELSE /\ value' = [value EXCEPT ![f] = addressAndCopyCounter]
            /\ UNCHANGED <<addressAndCopyCounter, pc>>
  /\ Silent
  /\ UNCHANGED <<previousCopyCounter, editMutex, heap, call, decrementee, original,
                 replacement, oldValue, handle, modCalls, seenCur,
                 parent, role, trueCount, minValue,
                 officialValue, starting, copy, previous, other, alive,
                 lastReferenced, fault, crowd>>

\* compare_exchange_weak(value, value + increment)
GetIncrement(f) ==
  /\ pc[f] = "si_cas1"
  /\ IF addressAndCopyCounter = value[f]
       THEN /\ addressAndCopyCounter' = AddIncrement(value[f])
            /\ pc' = [pc EXCEPT ![f] = "si_inc"]
            /\ UNCHANGED value
       ELSE /\ value' = [value EXCEPT ![f] = addressAndCopyCounter]
            /\ UNCHANGED <<addressAndCopyCounter, pc>>
  /\ Silent
  /\ UNCHANGED <<previousCopyCounter, editMutex, heap, call, decrementee, original,
                 replacement, oldValue, handle, modCalls, seenCur,
                 parent, role, trueCount, minValue,
                 officialValue, starting, copy, previous, other, alive,
                 lastReferenced, fault, crowd>>

\* obtained = getPointer(value); obtained->refcount++
GetRefcount(f) ==
  /\ pc[f] = "si_inc"
  /\ heap' = IncRefcount(heap, getPointer(value[f]))
  /\ fault' = (fault \/ Reclaimed(heap, getPointer(value[f])))
  /\ pc' = [pc EXCEPT ![f] = "si_load2"]
  /\ Silent
  /\ UNCHANGED <<addressAndCopyCounter, previousCopyCounter, editMutex, call, value,
                 decrementee, original, replacement, oldValue, handle, modCalls,
                 seenCur,
                 parent, role, trueCount, minValue,
                 officialValue, starting, copy, previous, other, alive,
                 lastReferenced, crowd>>

\* decrementee = addressAndCopyCounter.load()
GetLoadAgain(f) ==
  /\ pc[f] = "si_load2"
  /\ decrementee' = [decrementee EXCEPT ![f] = addressAndCopyCounter]
  /\ pc' = [pc EXCEPT ![f] = "si_cas2"]
  /\ Silent
  /\ UNCHANGED <<addressAndCopyCounter, previousCopyCounter, editMutex, heap, call,
                 value, original, replacement, oldValue, handle, modCalls, seenCur,
                 parent, role, trueCount, minValue,
                 officialValue, starting, copy, previous, other, alive,
                 lastReferenced, fault, crowd>>

\* safeInstance returns: get() wraps the pointer in a handle, ~CopyOnWrite keeps
\* it in lastReferenced
GetReturn(f) ==
  /\ IF call[f].kind = "destroy"
       THEN /\ lastReferenced' = getPointer(value[f])
            /\ pc' = [pc EXCEPT ![f] = "dt_release1"]
            /\ UNCHANGED handle
       ELSE /\ handle' = [handle EXCEPT ![f] = getPointer(value[f])]
            /\ pc' = [pc EXCEPT ![f] = "idle"]
            /\ UNCHANGED lastReferenced
  /\ value' = [value EXCEPT ![f] = NoWord]
  /\ decrementee' = [decrementee EXCEPT ![f] = NoWord]
  /\ seenCur' = [seenCur EXCEPT ![f] = {}]

\* mutant: the reader never notices that the address was exchanged
OverwrittenNever(d, v) == FALSE

\* (decrementee & suffix) != (value & suffix)
Overwritten(d, v) == Suffix(d) # Suffix(v)

\* one turn of the second do-while: previousCopyCounter-- and break, or
\* compare_exchange_weak(decrementee, decrementee - increment)
GetDecrement(f) ==
  /\ pc[f] = "si_cas2"
  /\ IF Overwritten(decrementee[f], value[f])
       THEN /\ previousCopyCounter' = previousCopyCounter - 1
            /\ GetReturn(f)
            /\ UNCHANGED addressAndCopyCounter
       ELSE IF addressAndCopyCounter = decrementee[f]
         THEN /\ addressAndCopyCounter' = SubIncrement(decrementee[f])
              /\ GetReturn(f)
              /\ UNCHANGED previousCopyCounter
         ELSE /\ decrementee' = [decrementee EXCEPT ![f] = addressAndCopyCounter]
              /\ UNCHANGED <<addressAndCopyCounter, previousCopyCounter, pc, value,
                             handle, seenCur, lastReferenced>>
  /\ Silent
  /\ UNCHANGED <<editMutex, heap, call, original, replacement, oldValue, modCalls,
                 parent, role, trueCount, minValue,
                 officialValue, starting, copy, previous, other, alive,
                 fault, crowd>>

\* --------------------------------------------- CopyOnWriteStateReference
\* the frame's caller is running its own code and holds the handle
UserCode(f) ==
  /\ pc[f] = "idle"
  /\ parent[f] # NoParent => InCallback(parent[f])

\* operator->: &instance->instance, read by the caller
Deref(f) ==
  /\ UserCode(f) /\ handle[f] # NullPtr
  /\ sample' = heap[handle[f]].instance
  /\ fault' = (fault \/ Reclaimed(heap, handle[f]))
  /\ ret' = NoRet
  /\ UNCHANGED <<addressAndCopyCounter, previousCopyCounter, editMutex, heap, pc, call,
                 value, decrementee, original, replacement, oldValue, handle,
                 modCalls, seenCur,
                 parent, role, trueCount, minValue,
                 officialValue, starting, copy, previous, other, alive,
                 lastReferenced, crowd>>

\* the heap after getRidOfPointer(p), and what a running get() may still return
Released(h) == [g \in Frames |-> {a \in seenCur[g] : h[a].live}]

\* ~CopyOnWriteStateReference
HandleDestroy(f) ==
  /\ UserCode(f) /\ handle[f] # NullPtr
  /\ heap' = getRidOfPointer(heap, handle[f])
  /\ fault' = (fault \/ Reclaimed(heap, handle[f]))
  /\ seenCur' = Released(heap')
  /\ handle' = [handle EXCEPT ![f] = NullPtr]
  /\ Silent
  /\ UNCHANGED <<addressAndCopyCounter, previousCopyCounter, editMutex, pc, call, value,
                 decrementee, original, replacement, oldValue, modCalls,
                 parent, role, trueCount, minValue,
                 officialValue, starting, copy, previous, other, alive,
                 lastReferenced, crowd>>

\* A "holder" thread keeps a second handle object, as the test's reference2
\* and reference3 (lines 53-56).
\* mutant: the copy constructor copies the pointer and leaves the count alone
HandleCopyShallow(f) ==
  /\ role[f] = "holder" /\ UserCode(f)
  /\ handle[f] # NullPtr /\ other[f] = NoHandle
  /\ other' = [other EXCEPT ![f] = handle[f]]
  /\ Silent
  /\ UNCHANGED <<addressAndCopyCounter, previousCopyCounter, editMutex, heap, pc, call,
                 value, decrementee, original, replacement, oldValue, handle,
                 modCalls, seenCur, parent, role, trueCount, minValue,
                 officialValue, starting, copy, previous, alive,
                 lastReferenced, fault, crowd>>

\* CopyOnWriteStateReference(const CopyOnWriteStateReference& other):
\* instance(other.instance), instance->refcount++
HandleCopy(f) ==
  /\ role[f] = "holder" /\ UserCode(f)
  /\ handle[f] # NullPtr /\ other[f] = NoHandle
  /\ other' = [other EXCEPT ![f] = handle[f]]
  /\ heap' = IncRefcount(heap, handle[f])
  /\ fault' = (fault \/ Reclaimed(heap, handle[f]))
  /\ Silent
  /\ UNCHANGED <<addressAndCopyCounter, previousCopyCounter, editMutex, pc, call,
                 value, decrementee, original, replacement, oldValue, handle,
                 modCalls, seenCur, parent, role, trueCount, minValue,
                 officialValue, starting, copy, previous, alive,
                 lastReferenced, crowd>>

\* CopyOnWriteStateReference(CopyOnWriteStateReference&& other): the frame's
\* handle is constructed from its second handle object, which is left empty
HandleMove(f) ==
  /\ role[f] = "holder" /\ UserCode(f)
  /\ handle[f] = NullPtr /\ other[f] # NoHandle
  /\ handle' = [handle EXCEPT ![f] = other[f]]
  /\ other' = [other EXCEPT ![f] = NullPtr]
  /\ Silent
  /\ UNCHANGED <<addressAndCopyCounter, previousCopyCounter, editMutex, heap, pc, call,
                 value, decrementee, original, replacement, oldValue,
                 modCalls, seenCur, parent, role, trueCount, minValue,
                 officialValue, starting, copy, previous, alive,
                 lastReferenced, fault, crowd>>

\* ~CopyOnWriteStateReference of the second handle object, bound or empty
OtherDestroy(f) ==
  /\ role[f] = "holder" /\ UserCode(f)
  /\ other[f] # NoHandle
  /\ IF other[f] # NullPtr
       THEN /\ heap' = getRidOfPointer(heap, other[f])
            /\ fault' = (fault \/ Reclaimed(heap, other[f]))
       ELSE UNCHANGED <<heap, fault>>
  /\ seenCur' = Released(heap')
  /\ other' = [other EXCEPT ![f] = NoHandle]
  /\ Silent
  /\ UNCHANGED <<addressAndCopyCounter, previousCopyCounter, editMutex, pc, call,
                 value, decrementee, original, replacement, oldValue, handle,
                 modCalls, parent, role, trueCount, minValue,
                 officialValue, starting, copy, previous, alive,
                 lastReferenced, crowd>>

\* operator=(const CopyOnWriteStateReference& other), assigning to the frame's
\* handle h from g: h itself ("assignSelf") or the second handle object
\* ("assignOther").  First `if (instance) getRidOfPointer(instance)`.
AssignKinds == {"assignSelf", "assignOther"}

AssignSource(f) == IF call[f].kind = "assignSelf" THEN handle[f] ELSE other[f]

AssignRelease(f, k) ==
  /\ role[f] = "holder" /\ UserCode(f)
  /\ handle[f] # NullPtr
  /\ k = "assignOther" => other[f] # NoHandle
  /\ call' = [call EXCEPT ![f] = [NoCall EXCEPT !.kind = k]]
  /\ pc' = [pc EXCEPT ![f] = "as_copy"]
  /\ heap' = getRidOfPointer(heap, handle[f])
  /\ fault' = (fault \/ Reclaimed(heap, handle[f]))
  /\ seenCur' = Released(heap')
  /\ Silent
  /\ UNCHANGED <<addressAndCopyCounter, previousCopyCounter, editMutex,
                 value, decrementee, original, replacement, oldValue, handle,
                 modCalls, parent, role, trueCount, minValue,
                 officialValue, starting, copy, previous, other, alive,
                 lastReferenced, crowd>>

\* then `instance = other.instance; if (instance) instance->refcount++`
AssignCopy(f) ==
  /\ pc[f] = "as_copy"
  /\ handle' = [handle EXCEPT ![f] = AssignSource(f)]
  /\ IF AssignSource(f) # NullPtr
       THEN /\ heap' = IncRefcount(heap, AssignSource(f))
            /\ fault' = (fault \/ Reclaimed(heap, AssignSource(f)))
       ELSE UNCHANGED <<heap, fault>>
  /\ call' = [call EXCEPT ![f] = NoCall]
  /\ pc' = [pc EXCEPT ![f] = "idle"]
  /\ Silent
  /\ UNCHANGED <<addressAndCopyCounter, previousCopyCounter, editMutex,
                 value, decrementee, original, replacement, oldValue,
                 modCalls, seenCur, parent, role, trueCount, minValue,
                 officialValue, starting, copy, previous, other, alive,
                 lastReferenced, crowd>>

\* ------------------------------------------------------ mutating calls
\* mutant: try_to_lock on a held mutex reports the lock as owned
OwnsLockAlways(m) == TRUE

\* std::unique_lock lock(editMutex, std::try_to_lock); lock.owns_lock()
OwnsLock(m) == m = NoOwner

\* the call starts with the mutex just acquired
Enter(f, c) ==
  /\ editMutex' = f
  /\ call' = [call EXCEPT ![f] = c]
  /\ pc' = [pc EXCEPT ![f] = "rp_load"]
  /\ ret' = NoRet

\* mutant: the blocking calls run without taking the lock
LockForgotten(f, c) ==
  /\ alive /\ pc[f] = "idle" /\ CanRun(f) /\ handle[f] = NullPtr
  /\ parent[f] = NoParent
  /\ Blocking(c)
  /\ role[f] \in {"any", "writer", "updater", "cf_reset"}
  /\ role[f] = "updater" => c = UpdaterCall
  /\ role[f] = "cf_reset" => c = ConfirmCall(previous[f] + 1)
  /\ call' = [call EXCEPT ![f] = c]
  /\ pc' = [pc EXCEPT ![f] = "rp_load"]
  /\ Silent
  /\ UNCHANGED <<addressAndCopyCounter, previousCopyCounter, editMutex, heap, value,
                 decrementee, original, replacement, oldValue, handle, modCalls,
                 seenCur, parent, role, trueCount, minValue,
                 officialValue, starting, copy, previous, other, alive,
                 lastReferenced, fault, crowd>>

\* emplace / reset / edit: std::lock_guard lock(editMutex)
Lock(f, c) ==
  /\ alive /\ pc[f] = "idle" /\ CanRun(f) /\ handle[f] = NullPtr
  /\ parent[f] = NoParent
  /\ Blocking(c)
  /\ role[f] \in {"any", "writer", "updater", "cf_reset"}
  /\ role[f] = "updater" => c = UpdaterCall
  /\ role[f] = "cf_reset" => c = ConfirmCall(previous[f] + 1)
  /\ editMutex = NoOwner
  /\ Enter(f, c)
  /\ sample' = NoSample
  /\ UNCHANGED <<addressAndCopyCounter, previousCopyCounter, heap, value, decrementee,
                 original, replacement, oldValue, handle, modCalls, seenCur,
                 parent, role, trueCount, minValue,
                 officialValue, starting, copy, previous, other, alive,
                 lastReferenced, fault, crowd>>

\* what a mutating call hands back
Returned(f, c, r, n) == [frame |-> f, kind |-> c.kind, result |-> r, mods |-> n]

\* mutant: the mutex is recursive, so the owning thread's nested try call gets it
TryLockRecursive(f, c) ==
  /\ alive /\ pc[f] = "idle" /\ CanRun(f) /\ handle[f] = NullPtr
  /\ ~Blocking(c)
  /\ role[f] \in {"any", "writer"}
  /\ IF OwnsLock(editMutex) \/ editMutex = parent[f]
       THEN Enter(f, c)
       ELSE /\ ret' = Returned(f, c, "false", 0)
            /\ UNCHANGED <<editMutex, call, pc>>
  /\ sample' = NoSample
  /\ UNCHANGED <<addressAndCopyCounter, previousCopyCounter, heap, value, decrementee,
                 original, replacement, oldValue, handle, modCalls, seenCur,
                 parent, role, trueCount, minValue,
                 officialValue, starting, copy, previous, other, alive,
                 lastReferenced, fault, crowd>>

\* tryReset / tryEdit: try_to_lock, return false when the lock is not owned
TryLock(f, c) ==
  /\ alive /\ pc[f] = "idle" /\ CanRun(f) /\ handle[f] = NullPtr
  /\ ~Blocking(c)
  /\ role[f] \in {"any", "writer"}
  /\ IF OwnsLock(editMutex)
       THEN Enter(f, c)
       ELSE /\ ret' = Returned(f, c, "false", 0)
            /\ UNCHANGED <<editMutex, call, pc>>
  /\ sample' = NoSample
  /\ UNCHANGED <<addressAndCopyCounter, previousCopyCounter, heap, value, decrementee,
                 original, replacement, oldValue, handle, modCalls, seenCur,
                 parent, role, trueCount, minValue,
                 officialValue, starting, copy, previous, other, alive,
                 lastReferenced, fault, crowd>>

\* mutant: the early return leaves the mutex locked
UnlockNever(m, f) == m

\* the lock's destructor
Unlock(m, f) == IF m = f THEN NoOwner ELSE m

\* return r; the locals go and the lock is released
Return(f, r) ==
  /\ pc' = [pc EXCEPT ![f] = "idle"]
  /\ ret' = Returned(f, call[f], r, modCalls[f])
  /\ editMutex' = Unlock(editMutex, f)
  /\ call' = [call EXCEPT ![f] = NoCall]
  /\ original' = [original EXCEPT ![f] = NullPtr]
  /\ replacement' = [replacement EXCEPT ![f] = NullPtr]
  /\ oldValue' = [oldValue EXCEPT ![f] = NoWord]
  /\ modCalls' = [modCalls EXCEPT ![f] = 0]
  /\ role' = [role EXCEPT ![f] =
                IF @ \in {"updater", "cf_reset"} /\ r = "false" THEN "finished"
                ELSE IF @ = "cf_reset" THEN "cf_cond"
                ELSE @]
  /\ trueCount' = IF role[f] = "updater" /\ r = "true" THEN trueCount + 1 ELSE trueCount

\* Internal* original = getPointer(addressAndCopyCounter)
ReplaceLoad(f) ==
  /\ pc[f] = "rp_load"
  /\ original' = [original EXCEPT ![f] = getPointer(addressAndCopyCounter)]
  /\ pc' = [pc EXCEPT ![f] = "rp_verify"]
  /\ Silent
  /\ UNCHANGED <<addressAndCopyCounter, previousCopyCounter, editMutex, heap, call,
                 value, decrementee, replacement, oldValue, handle, modCalls, seenCur,
                 parent, role, trueCount, minValue,
                 officialValue, starting, copy, previous, other, alive,
                 lastReferenced, fault, crowd>>

\* if (!verifier(original->instance)) return false
ReplaceVerify(f) ==
  /\ pc[f] = "rp_verify" /\ CanRun(f)
  /\ IF Verifier(call[f].verifier, heap[original[f]].instance)
       THEN /\ pc' = [pc EXCEPT ![f] = "rp_create"]
            /\ ret' = NoRet
            /\ UNCHANGED <<editMutex, call, original, replacement, oldValue, modCalls,
                           role, trueCount>>
       ELSE Return(f, "false")
  /\ sample' = NoSample
  /\ UNCHANGED <<addressAndCopyCounter, previousCopyCounter, heap, value, decrementee,
                 handle, seenCur, parent, minValue,
                 officialValue, starting, copy, previous, other, alive,
                 lastReferenced, fault, crowd>>

\* the creator lambda's `new Internal(old)` / `new Internal(args...)`
ReplaceCreate(f) ==
  /\ pc[f] = "rp_create"
  /\ \E a \in DOMAIN heap :
       /\ ~heap[a].live
       /\ heap' = [heap EXCEPT
                     ![a] = Internal(Duplicate(call[f], heap[original[f]].instance))]
       /\ replacement' = [replacement EXCEPT ![f] = a]
  /\ pc' = [pc EXCEPT ![f] = IF HasModifier(call[f]) THEN "rp_modify" ELSE "rp_exchange"]
  /\ Silent
  /\ UNCHANGED <<addressAndCopyCounter, previousCopyCounter, editMutex, call, value,
                 decrementee, original, oldValue, handle, modCalls, seenCur,
                 parent, role, trueCount, minValue,
                 officialValue, starting, copy, previous, other, alive,
                 lastReferenced, fault, crowd>>

\* mutant: the modifier is applied to the current payload, not to the duplicate
ReplaceModifyInPlace(f) ==
  /\ pc[f] = "rp_modify" /\ CanRun(f)
  /\ heap' = [heap EXCEPT
                ![original[f]].instance = Modifier(call[f].modifier, @)]
  /\ modCalls' = [modCalls EXCEPT ![f] = @ + 1]
  /\ pc' = [pc EXCEPT ![f] = "rp_exchange"]
  /\ Silent
  /\ UNCHANGED <<addressAndCopyCounter, previousCopyCounter, editMutex, call, value,
                 decrementee, original, replacement, oldValue, handle, seenCur,
                 parent, role, trueCount, minValue,
                 officialValue, starting, copy, previous, other, alive,
                 lastReferenced, fault, crowd>>

\* modifier(duplicateHolder.duplicate->instance); return duplicateHolder.take()
ReplaceModify(f) ==
  /\ pc[f] = "rp_modify" /\ CanRun(f)
  /\ heap' = [heap EXCEPT
                ![replacement[f]].instance = Modifier(call[f].modifier, @)]
  /\ officialValue' =
       Official(call[f].modifier, officialValue, heap[replacement[f]].instance)
  /\ modCalls' = [modCalls EXCEPT ![f] = @ + 1]
  /\ pc' = [pc EXCEPT ![f] = "rp_exchange"]
  /\ Silent
  /\ UNCHANGED <<addressAndCopyCounter, previousCopyCounter, editMutex, call, value,
                 decrementee, original, replacement, oldValue, handle, seenCur,
                 parent, role, trueCount, minValue,
                 starting, copy, previous, other, alive,
                 lastReferenced, fault, crowd>>

\* `new Internal(...)` throws (std::bad_alloc, or T's constructor): the new
\* expression gives the memory back and the exception leaves replace() and
\* the caller's lock
ReplaceCreateThrows(f) ==
  /\ pc[f] = "rp_create"
  /\ Return(f, "throw")
  /\ sample' = NoSample
  /\ UNCHANGED <<addressAndCopyCounter, previousCopyCounter, heap, value, decrementee,
                 handle, seenCur, parent, minValue,
                 officialValue, starting, copy, previous, other, alive,
                 lastReferenced, fault, crowd>>

\* mutant: the draft is held by a plain pointer, which the exception leaks
ReplaceModifyThrowsLeak(f) ==
  /\ pc[f] = "rp_modify" /\ CanRun(f)
  /\ Return(f, "throw")
  /\ sample' = NoSample
  /\ UNCHANGED <<addressAndCopyCounter, previousCopyCounter, heap, value, decrementee,
                 handle, seenCur, parent, minValue,
                 officialValue, starting, copy, previous, other, alive,
                 lastReferenced, fault, crowd>>

\* the modifier throws: ~DuplicateHolder deletes the duplicate and the
\* exception leaves replace() and the caller's lock
ReplaceModifyThrows(f) ==
  /\ pc[f] = "rp_modify" /\ CanRun(f)
  /\ heap' = [heap EXCEPT ![replacement[f]] = FreeCell]
  /\ Return(f, "throw")
  /\ sample' = NoSample
  /\ UNCHANGED <<addressAndCopyCounter, previousCopyCounter, value, decrementee,
                 handle, seenCur, parent, minValue,
                 officialValue, starting, copy, previous, other, alive,
                 lastReferenced, fault, crowd>>

\* oldValue = addressAndCopyCounter.exchange(reinterpret_cast<uint64_t>(replacement))
ReplaceExchange(f) ==
  /\ pc[f] = "rp_exchange"
  /\ oldValue' = [oldValue EXCEPT ![f] = addressAndCopyCounter]
  /\ addressAndCopyCounter' = PointerWord(replacement[f])
  /\ seenCur' = [g \in Frames |->
                  IF InGet(g) THEN seenCur[g] \cup {replacement[f]} ELSE seenCur[g]]
  /\ pc' = [pc EXCEPT ![f] = "rp_transfer"]
  /\ Silent
  /\ UNCHANGED <<previousCopyCounter, editMutex, heap, call, value, decrementee,
                 original, replacement, handle, modCalls,
                 parent, role, trueCount, minValue,
                 officialValue, starting, copy, previous, other, alive,
                 lastReferenced, fault, crowd>>

\* mutant: the captured count is stored, which forgets the early check-ins
ReplaceTransferStore(f) ==
  /\ pc[f] = "rp_transfer"
  /\ previousCopyCounter' = Abandoned(oldValue[f])
  /\ pc' = [pc EXCEPT ![f] = "rp_wait"]
  /\ Silent
  /\ UNCHANGED <<addressAndCopyCounter, editMutex, heap, call, value, decrementee,
                 original, replacement, oldValue, handle, modCalls, seenCur,
                 parent, role, trueCount, minValue,
                 officialValue, starting, copy, previous, other, alive,
                 lastReferenced, fault, crowd>>

\* previousCopyCounter += oldValue >> 48
ReplaceTransfer(f) ==
  /\ pc[f] = "rp_transfer"
  /\ previousCopyCounter' = previousCopyCounter + Abandoned(oldValue[f])
  /\ pc' = [pc EXCEPT ![f] = "rp_wait"]
  /\ Silent
  /\ UNCHANGED <<addressAndCopyCounter, editMutex, heap, call, value, decrementee,
                 original, replacement, oldValue, handle, modCalls, seenCur,
                 parent, role, trueCount, minValue,
                 officialValue, starting, copy, previous, other, alive,
                 lastReferenced, fault, crowd>>

\* mutant: the writer does not wait for the in-flight readers
DrainedNoWait(c) == TRUE

\* previousCopyCounter.load() != 0
Drained(c) == c = 0

\* do {} while (previousCopyCounter.load() != 0): the load that ends the loop
ReplaceWait(f) ==
  /\ pc[f] = "rp_wait"
  /\ Drained(previousCopyCounter)
  /\ pc' = [pc EXCEPT ![f] = "rp_release"]
  /\ Silent
  /\ UNCHANGED <<addressAndCopyCounter, previousCopyCounter, editMutex, heap, call,
                 value, decrementee, original, replacement, oldValue, handle, modCalls,
                 seenCur,
                 parent, role, trueCount, minValue,
                 officialValue, starting, copy, previous, other, alive,
                 lastReferenced, fault, crowd>>

\* getRidOfPointer(original); return true
ReplaceRelease(f) ==
  /\ pc[f] = "rp_release"
  /\ heap' = getRidOfPointer(heap, original[f])
  /\ fault' = (fault \/ Reclaimed(heap, original[f]))
  /\ seenCur' = Released(heap')
  /\ Return(f, "true")
  /\ sample' = NoSample
  /\ UNCHANGED <<addressAndCopyCounter, previousCopyCounter, value, decrementee,
                 handle, parent, minValue,
                 officialValue, starting, copy, previous, other, alive,
                 lastReferenced, crowd>>

\* ------------------------------------------------------- ~CopyOnWrite
\* no thread is inside get() or a mutating call
Quiescent == \A g \in Frames : pc[g] = "idle"

\* ~CopyOnWrite is entered by the thread that owns the container, and
\* safeInstance loads `value`
DestroyStart(f) ==
  /\ alive /\ Quiescent
  /\ role[f] = "writer" /\ parent[f] = NoParent
  /\ alive' = FALSE
  /\ call' = [call EXCEPT ![f] = [NoCall EXCEPT !.kind = "destroy"]]
  /\ value' = [value EXCEPT ![f] = addressAndCopyCounter]
  /\ seenCur' = [seenCur EXCEPT ![f] = {getPointer(addressAndCopyCounter)}]
  /\ pc' = [pc EXCEPT ![f] = "si_cas1"]
  /\ Silent
  /\ UNCHANGED <<addressAndCopyCounter, previousCopyCounter, editMutex, heap,
                 decrementee, original, replacement, oldValue, handle, modCalls,
                 parent, role, trueCount, minValue,
                 officialValue, starting, copy, previous, other,
                 lastReferenced, fault, crowd>>

\* mutant: the destructor deletes the final Internal whatever its count
DestroyReleaseDelete(f) ==
  /\ pc[f] = "dt_release1"
  /\ heap' = [heap EXCEPT ![lastReferenced] = FreeCell]
  /\ seenCur' = Released(heap')
  /\ pc' = [pc EXCEPT ![f] = "idle"]
  /\ call' = [call EXCEPT ![f] = NoCall]
  /\ lastReferenced' = NullPtr
  /\ Silent
  /\ UNCHANGED <<addressAndCopyCounter, previousCopyCounter, editMutex, value,
                 decrementee, original, replacement, oldValue, handle, modCalls,
                 parent, role, trueCount, minValue,
                 officialValue, starting, copy, previous, other, alive, fault, crowd>>

\* mutant: the destructor releases the acquired reference and forgets the slot's
DestroyReleaseOnce(f) ==
  /\ pc[f] = "dt_release1"
  /\ heap' = getRidOfPointer(heap, lastReferenced)
  /\ fault' = (fault \/ Reclaimed(heap, lastReferenced))
  /\ seenCur' = Released(heap')
  /\ pc' = [pc EXCEPT ![f] = "idle"]
  /\ call' = [call EXCEPT ![f] = NoCall]
  /\ lastReferenced' = NullPtr
  /\ Silent
  /\ UNCHANGED <<addressAndCopyCounter, previousCopyCounter, editMutex, value,
                 decrementee, original, replacement, oldValue, handle, modCalls,
                 parent, role, trueCount, minValue,
                 officialValue, starting, copy, previous, other, alive, crowd>>

\* getRidOfPointer(lastReferenced), the first and then the second
DestroyRelease(f) ==
  /\ pc[f] \in {"dt_release1", "dt_release2"}
  /\ heap' = getRidOfPointer(heap, lastReferenced)
  /\ fault' = (fault \/ Reclaimed(heap, lastReferenced))
  /\ seenCur' = Released(heap')
  /\ IF pc[f] = "dt_release1"
       THEN /\ pc' = [pc EXCEPT ![f] = "dt_release2"]
            /\ UNCHANGED <<call, lastReferenced>>
       ELSE /\ pc' = [pc EXCEPT ![f] = "idle"]
            /\ call' = [call EXCEPT ![f] = NoCall]
            /\ lastReferenced' = NullPtr
  /\ Silent
  /\ UNCHANGED <<addressAndCopyCounter, previousCopyCounter, editMutex, value,
                 decrementee, original, replacement, oldValue, handle, modCalls,
                 parent, role, trueCount, minValue,
                 officialValue, starting, copy, previous, other, alive, crowd>>

\* ------------------------------------------------------- specification
Step(f) ==
    \/ GetLoad(f)
    \/ GetIncrement(f)
    \/ GetRefcount(f)
    \/ GetLoadAgain(f)
    \/ GetDecrement(f)
    \/ Deref(f)
    \/ HandleDestroy(f)
    \/ \E c \in Calls : Lock(f, c)
    \/ \E c \in Calls : TryLock(f, c)
    \/ ReplaceLoad(f)
    \/ ReplaceVerify(f)
    \/ ReplaceCreate(f)
    \/ ReplaceModify(f)
    \/ ReplaceExchange(f)
    \/ ReplaceTransfer(f)
    \/ ReplaceWait(f)
    \/ ReplaceRelease(f)

Next == \E f \in Frames : Step(f)

Spec == Init /\ [][Next]_vars

\* The many-readers test.  `int copy = tested->a;` after safeInstance has
\* returned: the payload is read through the temporary handle, which is
\* destroyed at the end of the statement.
TakeSample(f) ==
  /\ UserCode(f) /\ handle[f] # NullPtr
  /\ sample' = heap[handle[f]].instance
  /\ fault' = (fault \/ Reclaimed(heap, handle[f]))
  /\ heap' = getRidOfPointer(heap, handle[f])
  /\ seenCur' = Released(heap')
  /\ handle' = [handle EXCEPT ![f] = NullPtr]
  /\ ret' = NoRet
  /\ UNCHANGED <<addressAndCopyCounter, previousCopyCounter, editMutex, pc, call, value,
                 decrementee, original, replacement, oldValue, modCalls, parent,
                 trueCount, minValue, officialValue, other, alive, lastReferenced,
                 crowd>>

\* int starting = officialValue - 1
ExporterStart(f) ==
  /\ role[f] = "exporter" /\ pc[f] = "idle"
  /\ starting' = [starting EXCEPT ![f] = officialValue - 1]
  /\ role' = [role EXCEPT ![f] = "exp_get"]
  /\ Silent
  /\ UNCHANGED <<addressAndCopyCounter, previousCopyCounter, editMutex, heap, pc, call,
                 value, decrementee, original, replacement, oldValue, handle,
                 modCalls, seenCur, parent, trueCount, minValue, officialValue,
                 copy, previous, other, alive, lastReferenced, fault, crowd>>

\* int copy = tested->a
ExporterSample(f) ==
  /\ role[f] = "exp_get"
  /\ TakeSample(f)
  /\ copy' = [copy EXCEPT ![f] = sample']
  /\ role' = [role EXCEPT ![f] = "exp_end"]
  /\ UNCHANGED <<starting, previous>>

\* int ending = officialValue; the comparison; the next turn of the for loop
ExporterEnd(f) ==
  /\ role[f] = "exp_end" /\ pc[f] = "idle"
  /\ role' = [role EXCEPT ![f] = "exporter"]
  /\ starting' = [starting EXCEPT ![f] = 0]
  /\ copy' = [copy EXCEPT ![f] = 0]
  /\ Silent
  /\ UNCHANGED <<addressAndCopyCounter, previousCopyCounter, editMutex, heap, pc, call,
                 value, decrementee, original, replacement, oldValue, handle,
                 modCalls, seenCur, parent, trueCount, minValue, officialValue,
                 previous, other, alive, lastReferenced, fault, crowd>>

\* while (tested->a < maxValue)
ConfirmerCond(f) ==
  /\ role[f] = "cf_cond"
  /\ TakeSample(f)
  /\ role' = [role EXCEPT ![f] = IF sample' < MaxValue THEN "cf_prev" ELSE "finished"]
  /\ UNCHANGED <<starting, copy, previous>>

\* int previous = tested->a
ConfirmerPrevious(f) ==
  /\ role[f] = "cf_prev"
  /\ TakeSample(f)
  /\ previous' = [previous EXCEPT ![f] = sample']
  /\ role' = [role EXCEPT ![f] = "cf_reset"]
  /\ UNCHANGED <<starting, copy>>

\* thread 1 is the main thread's loop; the other threads are exporters
OfficialInit ==
  \E x \in Values, n \in {1, 2} :
    Start(x, FALSE, [f \in Frames |-> IF f = 1 THEN "cf_cond"
                                      ELSE IF f = InnerFrame \/ n = 2 THEN "exporter"
                                      ELSE "finished"])

OfficialNext ==
  \E f \in Frames :
    \/ ExporterStart(f)
    \/ ExporterSample(f)
    \/ ExporterEnd(f)
    \/ ConfirmerCond(f)
    \/ ConfirmerPrevious(f)
    \/ GetLoad(f)
    \/ GetIncrement(f)
    \/ GetRefcount(f)
    \/ GetLoadAgain(f)
    \/ GetDecrement(f)
    \/ Lock(f, ConfirmCall(previous[f] + 1))
    \/ ReplaceLoad(f)
    \/ ReplaceVerify(f)
    \/ ReplaceCreate(f)
    \/ ReplaceModify(f)
    \/ ReplaceExchange(f)
    \/ ReplaceTransfer(f)
    \/ ReplaceWait(f)
    \/ ReplaceRelease(f)

OfficialSpec == OfficialInit /\ [][OfficialNext]_vars

\* The threads of Spec with constructors and modifiers that may throw.
ThrowNext ==
  \E f \in Frames :
    \/ Step(f)
    \/ ReplaceCreateThrows(f)
    \/ ReplaceModifyThrows(f)

ThrowSpec == Init /\ [][ThrowNext]_vars

\* Thread InnerFrame holds handles, thread 1 owns the container, writes it and
\* destroys it, thread 2 reads or stays away.
HandleInit ==
  \E x \in Values, r \in {"reader", "finished"} :
    Start(x, FALSE, [f \in Frames |-> IF f = InnerFrame THEN "holder"
                                      ELSE IF f = 1 THEN "writer" ELSE r])

HandleNext ==
  \E f \in Frames :
    \/ GetLoad(f)
    \/ GetIncrement(f)
    \/ GetRefcount(f)
    \/ GetLoadAgain(f)
    \/ GetDecrement(f)
    \/ Deref(f)
    \/ HandleDestroy(f)
    \/ HandleCopy(f)
    \/ HandleMove(f)
    \/ OtherDestroy(f)
    \/ Lock(f, WriterCall)
    \/ ReplaceLoad(f)
    \/ ReplaceVerify(f)
    \/ ReplaceCreate(f)
    \/ ReplaceModify(f)
    \/ ReplaceExchange(f)
    \/ ReplaceTransfer(f)
    \/ ReplaceWait(f)
    \/ ReplaceRelease(f)
    \/ DestroyStart(f)
    \/ DestroyRelease(f)

HandleSpec == HandleInit /\ [][HandleNext]_vars

\* Thread InnerFrame holds two handle objects and assigns to the first, thread
\* 1 writes the container, thread 2 stays away.
AssignInit ==
  \E x \in Values :
    Start(x, FALSE, [f \in Frames |-> IF f = InnerFrame THEN "holder"
                                      ELSE IF f = 1 THEN "writer" ELSE "finished"])

AssignNext ==
  \E f \in Frames :
    \/ GetLoad(f)
    \/ GetIncrement(f)
    \/ GetRefcount(f)
    \/ GetLoadAgain(f)
    \/ GetDecrement(f)
    \/ HandleDestroy(f)
    \/ HandleCopy(f)
    \/ OtherDestroy(f)
    \/ \E k \in AssignKinds : AssignRelease(f, k)
    \/ AssignCopy(f)
    \/ Lock(f, WriterCall)
    \/ ReplaceLoad(f)
    \/ ReplaceVerify(f)
    \/ ReplaceCreate(f)
    \/ ReplaceModify(f)
    \/ ReplaceExchange(f)
    \/ ReplaceTransfer(f)
    \/ ReplaceWait(f)
    \/ ReplaceRelease(f)

AssignSpec == AssignInit /\ [][AssignNext]_vars

\* The stress tests: threads 1..n loop on edit(a++, before.a < maxValue) until it
\* returns false while the other threads keep sampling through get().
StressInit ==
  \E x \in Values, n \in {1, 2} :
    Start(x, FALSE, [f \in Frames |-> IF f \in 1..n THEN "updater" ELSE "reader"])

StressNext ==
  \E f \in Frames :
    \/ GetLoad(f)
    \/ GetIncrement(f)
    \/ GetRefcount(f)
    \/ GetLoadAgain(f)
    \/ GetDecrement(f)
    \/ Deref(f)
    \/ HandleDestroy(f)
    \/ Lock(f, UpdaterCall)
    \/ ReplaceLoad(f)
    \/ ReplaceVerify(f)
    \/ ReplaceCreate(f)
    \/ ReplaceModify(f)
    \/ ReplaceExchange(f)
    \/ ReplaceTransfer(f)
    \/ ReplaceWait(f)
    \/ ReplaceRelease(f)

StressSpec == StressInit /\ [][StressNext]_vars

\* The one-writer stress test with two readers and 2^16 - 1 further reader threads
\* that were preempted right after the increment of safeInstance, or with none.
CrowdInit ==
  \E x \in Values, n \in {0, CounterMod - 1} :
    StartAt(1, Addr, n, x, FALSE,
            [f \in Frames |-> IF f = 1 THEN "updater" ELSE "reader"])

\* The steps of the stress test up to the first access to a reclaimed Internal:
\* what the program does after a use after free is undefined and is not followed.
CrowdNext ==
  \E f \in Frames :
    \/ ~fault /\ GetLoad(f)
    \/ ~fault /\ GetIncrement(f)
    \/ ~fault /\ GetRefcount(f)
    \/ ~fault /\ GetLoadAgain(f)
    \/ ~fault /\ GetDecrement(f)
    \/ ~fault /\ Deref(f)
    \/ ~fault /\ HandleDestroy(f)
    \/ ~fault /\ Lock(f, UpdaterCall)
    \/ ~fault /\ ReplaceLoad(f)
    \/ ~fault /\ ReplaceVerify(f)
    \/ ~fault /\ ReplaceCreate(f)
    \/ ~fault /\ ReplaceModify(f)
    \/ ~fault /\ ReplaceExchange(f)
    \/ ~fault /\ ReplaceTransfer(f)
    \/ ~fault /\ ReplaceWait(f)
    \/ ~fault /\ ReplaceRelease(f)

CrowdSpec == CrowdInit /\ [][CrowdNext]_vars

\* The one-writer stress test on a platform whose allocator returns addresses
\* of the low half, or addresses of the high half.
EncodeInit ==
  \E x \in Values, high \in BOOLEAN :
    StartAt(IF high THEN -1 ELSE 1, IF high THEN HighAddr ELSE Addr, 0, x, FALSE,
            [f \in Frames |-> IF f = 1 THEN "updater" ELSE "reader"])

EncodeSpec == EncodeInit /\ [][StressNext]_vars

\* the thread inside safeInstance takes its next step
GetStep(f) ==
  GetIncrement(f) \/ GetRefcount(f) \/ GetLoadAgain(f) \/ GetDecrement(f)

\* The stress tests with one reader thread that is always scheduled again; the
\* writers and the other threads may stop anywhere.
ReaderSpec == StressSpec /\ WF_vars(GetStep(InnerFrame))

\* The stress tests with every thread that is inside safeInstance, and every
\* writer that is transferring or spinning, always scheduled again.
DrainSpec ==
  /\ StressSpec
  /\ \A f \in Frames : WF_vars(GetStep(f))
  /\ \A f \in Frames : WF_vars(ReplaceTransfer(f) \/ ReplaceWait(f))

TypeOK ==
  /\ getPointer(addressAndCopyCounter) \in Addr
  /\ addressAndCopyCounter.top \in 0..Cardinality(Frames)
  /\ previousCopyCounter \in -Cardinality(Frames)..Cardinality(Frames)
  /\ \A a \in Addr : heap[a].instance \in Values

\* ---------------------------------------------------------------- claims
Current == getPointer(addressAndCopyCounter)

\* a: the slot's current Snapshot, a Handle's Snapshot, or the Snapshot a reader
\* observed in step 1 of safeInstance and has not finished step 4 on
InUse(a) ==
  \/ Current = a
  \/ \E f \in Frames : handle[f] = a
  \/ \E f \in Frames : InFlight(f) /\ getPointer(value[f]) = a

\* C1: safe reclamation.  In every reachable state the slot's current Snapshot,
\* every Snapshot a Handle is bound to and every Snapshot a reader is between
\* step 1 and the end of step 4 on is not reclaimed and holds a strong count of
\* at least one; so no reader increments the count of, or dereferences, a
\* reclaimed Snapshot.
C1_SafeReclamation ==
  \A a \in Addr : InUse(a) => (heap[a].live /\ heap[a].refcount >= 1)

\* a reader caught by the exchange is still on the superseded Snapshot while the
\* writer spins
C1_Witness ==
  \E f \in Frames, w \in Frames :
    /\ pc[w] = "rp_wait" /\ previousCopyCounter > 0
    /\ pc[f] = "si_inc" /\ getPointer(value[f]) = original[w]

\* a draft that its writer has not yet exchanged into the slot
IsDraft(a) ==
  \E w \in Frames : pc[w] \in {"rp_modify", "rp_exchange"} /\ replacement[w] = a

GetReturns(f) == pc[f] = "si_cas2" /\ pc'[f] = "idle"

\* C2: linearizable reads.  The Handle a get() returns is bound to a Snapshot
\* that was the slot's current Snapshot at some instant between the call and
\* the return, and never to a draft that is not yet published.
C2_LinearizableReads ==
  [][\A f \in Frames :
       GetReturns(f) => (handle'[f] \in seenCur[f] /\ ~IsDraft(handle'[f]))]_vars

\* a get() that the exchange overtook has returned the pre-publish Snapshot
C2_Witness ==
  \E f \in Frames, w \in Frames :
    /\ pc[w] = "rp_wait" /\ Abandoned(oldValue[w]) = 1 /\ previousCopyCounter = 0
    /\ handle[f] = original[w] /\ handle[f] # Current
    /\ heap[handle[f]].instance # heap[Current].instance

\* C3: handle stability.  A step never changes the payload of a Snapshot a
\* Handle stays bound to, nor reclaims it; and the payload of a live Snapshot
\* changes only while it is a writer's draft inside the modifier.
C3_HandleStability ==
  [][/\ \A f \in Frames :
          (handle[f] # NullPtr /\ handle'[f] = handle[f]) =>
             /\ heap'[handle[f]].live
             /\ heap'[handle[f]].instance = heap[handle[f]].instance
     /\ \A a \in Addr :
          (heap[a].live /\ heap'[a].live /\ ~IsDraft(a)) =>
             heap'[a].instance = heap[a].instance]_vars

\* a Handle still reads the old payload after a completed publish of another
C3_Witness ==
  \E f \in Frames :
    /\ handle[f] # NullPtr /\ handle[f] # Current
    /\ editMutex = NoOwner
    /\ heap[handle[f]].refcount = 1
    /\ heap[handle[f]].instance # heap[Current].instance

\* C4: writer mutual exclusion.  At most one frame is inside replace(), and it
\* is the frame that holds editMutex.
C4_WriterMutex ==
  /\ Cardinality({f \in Frames : InReplace(f)}) <= 1
  /\ \A f \in Frames : InReplace(f) => editMutex = f

\* one thread is inside replace() and the other thread's try call has just
\* been turned away
C4_Witness ==
  \E f \in Threads :
    /\ InReplace(f)
    /\ ret.frame \in Threads \ {f} /\ ret.result = "false"

Rejects(f) == pc[f] = "rp_verify" /\ pc'[f] = "idle"

\* C5: predicate rejection has no side effect.  The steps of a call up to its
\* verifier leave the heap, the slot and the Drain Counter alone; the
\* rejecting step returns false with no modifier invocation and the mutex free.
C5_RejectionNoEffect ==
  [][\A f \in Frames :
       /\ (pc'[f] \in {"rp_load", "rp_verify"} /\ pc'[f] # pc[f]) =>
            /\ heap' = heap
            /\ addressAndCopyCounter' = addressAndCopyCounter
            /\ previousCopyCounter' = previousCopyCounter
       /\ Rejects(f) =>
            /\ ~Verifier(call[f].verifier, heap[Current].instance)
            /\ ret' = Returned(f, call[f], "false", 0)
            /\ heap' = heap
            /\ addressAndCopyCounter' = addressAndCopyCounter
            /\ previousCopyCounter' = previousCopyCounter
            /\ editMutex' = NoOwner]_vars

\* a call has just returned false and left the mutex free: a rejection
C5_Witness ==
  /\ ret.result = "false" /\ editMutex = NoOwner
  /\ ret.kind \in {"edit", "tryEdit", "tryReset"}
  /\ heap[Current].instance = MaxValue

\* the payload a call publishes when its predicate accepted payload p
Expected(c, p) ==
  IF c.kind = "emplace" THEN c.arg
  ELSE IF c.kind \in {"edit", "tryEdit"} THEN Modifier(c.modifier, p)
  ELSE Modifier(c.modifier, c.arg)

\* C6: accepted write.  A call whose predicate accepted returns true after one
\* modifier invocation (none for emplace, which takes no modifier); the payload
\* current at its return is modifier(copy of P), modifier(T(args)) or T(args);
\* and the Snapshot the exchange replaces is the P the predicate saw.
C6_AcceptedWrite ==
  [][\A f \in Frames :
       /\ (pc[f] = "rp_verify" /\ pc'[f] = "rp_create") =>
            Verifier(call[f].verifier, heap[Current].instance)
       /\ (pc[f] = "rp_exchange" /\ pc'[f] # pc[f]) => original[f] = Current
       /\ (pc[f] = "rp_release" /\ pc'[f] = "idle") =>
            /\ ret' = Returned(f, call[f], "true", IF HasModifier(call[f]) THEN 1 ELSE 0)
            /\ Verifier(call[f].verifier, heap[original[f]].instance)
            /\ heap'[Current'].instance =
                 Expected(call[f], heap[original[f]].instance)
            /\ Current' = replacement[f]
            /\ editMutex' = NoOwner]_vars

\* an edit has returned true after one modifier invocation
C6_Witness ==
  /\ ret.result = "true" /\ ret.kind = "edit" /\ ret.mods = 1
  /\ heap[Current].instance = MaxValue

TryKinds == {"tryEdit", "tryReset"}

\* C7: contention failure.  No call enters replace() while the mutex is held;
\* a try call made then returns false in the same step, with no predicate or
\* modifier invocation, and changes nothing else: the slot, the Drain Counter,
\* the heap, the mutex and every frame's position stay as they were.
C7_ContentionFailure ==
  [][\A f \in Frames :
       /\ (editMutex # NoOwner /\ pc[f] = "idle") => pc'[f] # "rp_load"
       /\ (pc[f] = "idle" /\ ret'.frame = f) =>
            /\ editMutex # NoOwner
            /\ ret'.kind \in TryKinds /\ ret'.result = "false" /\ ret'.mods = 0
            /\ UNCHANGED <<addressAndCopyCounter, previousCopyCounter, editMutex,
                           heap, pc, call, original, replacement, oldValue,
                           handle, modCalls>>]_vars

\* a tryEdit made from inside the thread's own modifier has returned false
C7_Witness ==
  /\ ret.frame = InnerFrame /\ ret.kind = "tryEdit" /\ ret.result = "false"
  /\ parent[InnerFrame] = 1 /\ pc[1] = "rp_modify" /\ editMutex = 1

\* a step of another frame that writes the slot word
OthersWriteSlot(f) ==
  /\ addressAndCopyCounter' # addressAndCopyCounter
  /\ pc'[f] = pc[f]

\* C8: readers never block.  A thread inside safeInstance always has a step
\* to take, whatever the mutex and the Drain Counter hold, and none of its steps
\* writes the mutex; if from some point on no other thread writes the slot
\* word, a reader that keeps being scheduled leaves get(), even with the
\* writers stopped anywhere.
C8_ReadersNeverBlock ==
  /\ [](\A f \in Frames : InGet(f) => ENABLED GetStep(f))
  /\ [][\A f \in Frames : (InGet(f) /\ pc'[f] # pc[f]) => editMutex' = editMutex]_vars
  /\ (<>[][~OthersWriteSlot(InnerFrame)]_vars) =>
       (InGet(InnerFrame) ~> ~InGet(InnerFrame))

\* the reader holds the new Snapshot while the writer still spins on the Drain
\* Counter for the other reader
C8_Witness ==
  /\ role[InnerFrame] = "reader" /\ handle[InnerFrame] = Current
  /\ pc[1] = "rp_wait" /\ previousCopyCounter > 0
  /\ InFlight(2) /\ getPointer(value[2]) = original[1]

\* C9: drain termination.  With the in-flight readers and the writer scheduled,
\* a writer past the exchange always leaves the busy-wait; and the Drain
\* Counter is only ever decremented by a reader that is in flight on the
\* Snapshot a writer has exchanged out and not yet released, so a get() that
\* started after the exchange never touches it.
C9_DrainTerminates ==
  /\ \A w \in Frames : (pc[w] \in {"rp_transfer", "rp_wait"}) ~> (pc[w] = "rp_release")
  /\ [][previousCopyCounter' # previousCopyCounter =>
          \/ \E w \in Frames :
               /\ pc[w] = "rp_transfer" /\ pc'[w] = "rp_wait"
               /\ previousCopyCounter' = previousCopyCounter + Abandoned(oldValue[w])
          \/ \E f \in Frames, w \in Frames :
               /\ GetReturns(f) /\ pc[w] \in {"rp_transfer", "rp_wait"}
               /\ getPointer(value[f]) = original[w]
               /\ getPointer(value[f]) # Current
               /\ previousCopyCounter' = previousCopyCounter - 1]_vars

\* the exchange caught two readers in flight and the writer spins for both
C9_Witness ==
  \E w \in Frames :
    /\ pc[w] = "rp_wait" /\ previousCopyCounter = 2
    /\ \A f \in Frames \ {w} : InFlight(f) /\ getPointer(value[f]) = original[w]

AllFinished == \A f \in Frames : role[f] # "updater"

\* C10: no lost updates.  In the stress tests every value sampled through a
\* handle lies in minValue..MaxValue, never more than MaxValue - minValue calls
\* have returned true, and once every updater loop has seen false the payload
\* is MaxValue and exactly MaxValue - minValue calls returned true.
C10_NoLostUpdates ==
  /\ sample # NoSample => sample \in minValue..MaxValue
  /\ trueCount <= MaxValue - minValue
  /\ AllFinished =>
       /\ heap[Current].instance = MaxValue
       /\ trueCount = MaxValue - minValue

\* two updater threads have both finished after sharing the increments from 0
C10_Witness ==
  /\ role[1] = "finished" /\ role[2] = "finished"
  /\ minValue = 0 /\ trueCount = MaxValue /\ MaxValue >= 2
  /\ sample = MaxValue

\* C11: bounded staleness against an external confirmation.  With one writer
\* that publishes previous + 1 by reset and records it in officialValue from
\* inside the modifier, a reader that read officialValue - 1 into starting,
\* sampled copy through get() and then reads officialValue as ending finds
\* starting <= copy <= ending.
C11_BoundedStaleness ==
  [][\A f \in Frames :
       (role[f] = "exp_end" /\ role'[f] = "exporter") =>
          (starting[f] <= copy[f] /\ copy[f] <= officialValue)]_vars

\* an exporter compares a sample that is the confirmed value's predecessor
\* while the writer is past the modifier and the new value is not yet published
C11_Witness ==
  \E f \in Frames :
    /\ role[f] = "exp_end" /\ copy[f] = officialValue - 1 /\ starting[f] = copy[f]
    /\ pc[1] = "rp_exchange" /\ officialValue = MaxValue

\* the number of handle objects bound to a
Handles(a) ==
  Cardinality({f \in Frames : handle[f] = a}) + Cardinality({f \in Frames : other[f] = a})

\* C12: handle copy and move.  Copy-constructing from a bound Handle adds
\* exactly one to the Snapshot's count and gives a second Handle to the same
\* Snapshot; either of the two can be destroyed and the other stays bound to a
\* live Snapshot.  Move-constructing transfers the binding, changes no count
\* and leaves the source empty; destroying the empty source changes nothing
\* in the heap.
C12_HandleCopyMove ==
  /\ [](\A a \in Addr : Handles(a) >= 1 => (heap[a].live /\ heap[a].refcount >= Handles(a)))
  /\ [][\A f \in Frames :
          /\ (other[f] = NoHandle /\ other'[f] # NoHandle) =>
                /\ other'[f] = handle[f] /\ handle'[f] = handle[f]
                /\ heap' = [heap EXCEPT ![handle[f]].refcount = @ + 1]
          /\ (other[f] \in Addr /\ other'[f] = NullPtr) =>
                /\ handle[f] = NullPtr /\ handle'[f] = other[f]
                /\ heap' = heap
          /\ (other[f] = NullPtr /\ other'[f] = NoHandle) =>
                /\ heap' = heap
                /\ handle'[f] = handle[f]
          /\ (other[f] \in Addr /\ other'[f] = NoHandle) =>
                /\ heap[other[f]].refcount - 1 >= Handles(other[f]) - 1
                /\ handle'[f] = handle[f]
                /\ handle[f] = other[f] =>
                      /\ heap'[handle[f]].live
                      /\ heap'[handle[f]].refcount = heap[handle[f]].refcount - 1]_vars

\* a moved-from handle object is about to be destroyed while the handle that
\* took its binding holds the last reference to a superseded Snapshot
C12_Witness ==
  \E f \in Frames :
    /\ other[f] = NullPtr /\ handle[f] \in Addr
    /\ handle[f] # Current /\ heap[handle[f]].refcount = 1 /\ alive

\* a call of frame f ends with an exception
Throws(f) == ret'.frame = f /\ ret'.result = "throw"

\* C13: construction failure leaves the state unchanged.  When the
\* construction of the replacement or the modifier throws, the call ends
\* before the exchange: the slot word, the current Snapshot with its count
\* and the Drain Counter are as they were, no Snapshot but the draft changed,
\* the draft is deallocated, and the mutex is free.
C13_ConstructionFailure ==
  /\ [](ret.result = "throw" =>
          \A g \in Threads :
             (pc[g] = "idle" /\ handle[g] = NullPtr) => ENABLED Lock(g, UpdaterCall))
  /\ [][\A f \in Frames :
          Throws(f) =>
            /\ pc[f] \in {"rp_create", "rp_modify"} /\ pc'[f] = "idle"
            /\ addressAndCopyCounter' = addressAndCopyCounter
            /\ Current = original[f]
            /\ heap'[Current].live /\ heap'[Current] = heap[Current]
            /\ previousCopyCounter' = previousCopyCounter
            /\ \A a \in Addr : a # replacement[f] => heap'[a] = heap[a]
            /\ replacement[f] # NullPtr => ~heap'[replacement[f]].live
            /\ Cardinality({a \in Addr : heap'[a].live}) =
                 Cardinality({a \in Addr : heap[a].live /\ a # replacement[f]})
            /\ editMutex' = NoOwner]_vars

\* an edit's modifier has just thrown while another thread holds the current
\* Snapshot through a handle
C13_Witness ==
  /\ ret.result = "throw" /\ ret.kind = "edit" /\ ret.frame \in Threads
  /\ \E g \in Threads \ {ret.frame} : handle[g] = Current
  /\ Cardinality({a \in Addr : heap[a].live}) = 1

\* no handle object is bound to a Snapshot
NoBound == \A f \in Frames : handle[f] = NullPtr /\ other[f] \notin Addr

\* the count the final Snapshot holds at each position of ~CopyOnWrite when no
\* handle is bound: 1 -> 2 -> 1 -> 0
TeardownCount(f) ==
  IF pc[f] \in {"si_cas1", "si_inc"} THEN 1
  ELSE IF pc[f] \in {"si_load2", "si_cas2", "dt_release1"} THEN 2
  ELSE IF pc[f] = "dt_release2" THEN 1
  ELSE 0

\* C14: teardown drains to zero.  Once the container is being destroyed and
\* no Handle is bound, the final Snapshot's count is 1, then 2 after the
\* destructor's safeInstance, then 1 and then 0 after the two releases; no
\* other Snapshot is left, no reclaimed Snapshot is released again, and when
\* the destructor has returned every Snapshot is reclaimed.
C14_TeardownDrains ==
  (~alive /\ NoBound) =>
     /\ ~fault
     /\ \A f \in Frames :
          call[f].kind = "destroy" =>
             /\ heap[Current].live /\ heap[Current].refcount = TeardownCount(f)
             /\ \A a \in Addr \ {Current} : ~heap[a].live
     /\ Quiescent => \A a \in Addr : ~heap[a].live

\* the destructor of a container that has published is between its two
\* releases and the final Snapshot's count is back to 1
C14_Witness ==
  /\ ~alive /\ NoBound /\ pc[1] = "dt_release2"
  /\ Current # 1 /\ heap[Current].refcount = 1

\* the readers between step 1 and the end of step 4 of get() on Snapshot a
InFlightOn(a) ==
  Cardinality({f \in Frames : InFlight(f) /\ getPointer(value[f]) = a})
  + (IF a = 1 THEN crowd ELSE 0)

\* C15: in-flight count overflow policy.  A reader's step 1 never takes the
\* in-flight field from its maximum 2^16 - 1 to zero, and the count an
\* exchange captures for the Drain Counter is the number of readers in
\* flight on the Snapshot it replaces.
C15_OverflowPolicy ==
  [][/\ \A f \in Frames :
          (pc[f] = "si_cas1" /\ pc'[f] = "si_inc") =>
             ~(Abandoned(addressAndCopyCounter) = CounterMod - 1
               /\ Abandoned(addressAndCopyCounter') = 0)
     /\ \A w \in Frames :
          (pc[w] = "rp_exchange" /\ pc'[w] = "rp_transfer") =>
             Abandoned(oldValue'[w]) = InFlightOn(original[w])]_vars

\* C16: packed word encoding.  For every canonical address A of either half,
\* the word the constructor stores and the word the exchange stores hold
\* in-flight count 0, and getPointer of that word plus any in-flight count
\* in 0..2^16-1 is A.
C16_PackedEncoding ==
  /\ Abandoned(addressAndCopyCounter) = 0
  /\ \A A \in DOMAIN heap, k \in 0..(CounterMod - 1) :
        getPointer(PlusCount(PointerWord(A), k)) = A
  /\ [][\A w \in Frames :
          (pc[w] = "rp_exchange" /\ pc'[w] = "rp_transfer") =>
             /\ Abandoned(addressAndCopyCounter') = 0
             /\ getPointer(addressAndCopyCounter') = replacement[w]]_vars

\* the slot's own reference to a: held while a is current, and for a superseded
\* Snapshot until its writer's getRidOfPointer(original); the destructor's
\* second getRidOfPointer gives up the last one
SlotRef(a) ==
  IF \/ a = Current /\ (alive \/ \E d \in Frames : call[d].kind = "destroy")
     \/ \E w \in Frames :
          pc[w] \in {"rp_transfer", "rp_wait", "rp_release"} /\ original[w] = a
  THEN 1 ELSE 0

\* the references acquired by refcount++ in safeInstance and not yet handed to
\* a handle object (or, in ~CopyOnWrite, not yet released)
Acquired(a) ==
  Cardinality({f \in Frames :
                 /\ pc[f] \in {"si_load2", "si_cas2"} /\ getPointer(value[f]) = a})
  + Cardinality({d \in Frames : pc[d] = "dt_release1" /\ lastReferenced = a})

Owners(a) == SlotRef(a) + Handles(a) + Acquired(a)

\* C17: strong-count accounting.  Every published Snapshot that is not
\* reclaimed has count = the slot's reference (1 or 0) + the Handles bound to
\* it + the readers that incremented it and have not yet built their Handle,
\* and that count is at least 1; a reclaimed Snapshot has none of these; a
\* Snapshot is reclaimed by the step that takes its count from 1 to 0; and a
\* mutating call that returns true has allocated one Snapshot, now current,
\* and releases the slot's reference on one, the Snapshot it replaced.
C17_StrongCount ==
  /\ [](\A a \in Addr :
          /\ (heap[a].live /\ ~IsDraft(a)) =>
                (heap[a].refcount = Owners(a) /\ heap[a].refcount >= 1)
          /\ ~heap[a].live => Owners(a) = 0)
  /\ [][/\ \A a \in Addr :
            /\ (heap[a].live /\ ~heap'[a].live) => heap[a].refcount = 1
            /\ (~heap[a].live /\ heap'[a].live) =>
                  \E w \in Frames :
                    /\ pc[w] = "rp_create" /\ replacement'[w] = a
                    /\ heap'[a].refcount = 1
                    /\ \A b \in Addr \ {a} : heap'[b] = heap[b]
        /\ \A w \in Frames :
            (pc[w] = "rp_release" /\ pc'[w] = "idle") =>
               /\ ret'.result = "true"
               /\ replacement[w] = Current /\ original[w] # Current
               /\ \E o \in Addr :
                    /\ o = original[w]
                    /\ SlotRef(o) = 1 /\ SlotRef(o)' = 0
                    /\ heap[o].refcount - 1 = Owners(o)'
                    /\ \A b \in Addr \ {o} :
                         (heap'[b] = heap[b] /\ SlotRef(b)' = SlotRef(b))]_vars

\* a superseded Snapshot is kept by the two handle objects of one thread only
C17_Witness ==
  \E a \in Addr :
    /\ a # Current /\ heap[a].live /\ heap[a].refcount = 2
    /\ Handles(a) = 2 /\ SlotRef(a) = 0 /\ alive
    /\ \E f \in Frames : InFlight(f)

\* C18: counter accounting.  While no writer is between its exchange and the
\* end of its busy-wait the Drain Counter is 0, and the slot's in-flight field
\* is the number of readers between step 1 and the end of step 4 on the
\* current Snapshot.  Inside that window, with n the count the exchange
\* captured and c the number of those readers that have decremented the Drain
\* Counter, the counter is -c before the transfer and n - c after it, never
\* below -n, and the busy-wait ends only when c = n.
C18_CounterAccounting ==
  /\ [](/\ Abandoned(addressAndCopyCounter) = InFlightOn(Current)
        /\ (\A w \in Frames : pc[w] \notin {"rp_transfer", "rp_wait"}) =>
              previousCopyCounter = 0
        /\ \A w \in Frames :
             LET n == Abandoned(oldValue[w])
                 c == n - InFlightOn(original[w])
             IN /\ pc[w] \in {"rp_transfer", "rp_wait"} => (0 <= c /\ c <= n)
                /\ pc[w] = "rp_transfer" => previousCopyCounter = -c
                /\ pc[w] = "rp_wait" => previousCopyCounter = n - c
                /\ pc[w] \in {"rp_transfer", "rp_wait"} => previousCopyCounter >= -n)
  /\ [][\A w \in Frames :
          (pc[w] = "rp_wait" /\ pc'[w] = "rp_release") =>
             InFlightOn(original[w]) = 0]_vars

\* the exchange caught two readers; one has checked in before the transfer
\* and the other is still in flight
C18_Witness ==
  \E w \in Frames :
    /\ pc[w] = "rp_transfer" /\ Abandoned(oldValue[w]) = 2
    /\ previousCopyCounter = -1 /\ InFlightOn(original[w]) = 1

\* C19: handle copy-assignment safety.  For h = g, g being h itself or another
\* handle object: the first step takes exactly one reference from the
\* Snapshot h was bound to; after the second step h is bound to g's Snapshot,
\* which is live with a count that covers the handle objects bound to it;
\* and neither step reads or writes the count of a reclaimed Snapshot.
C19_AssignSafety ==
  /\ [](~fault)
  /\ [][\A f \in Frames :
          /\ (pc[f] = "idle" /\ pc'[f] = "as_copy") =>
                \E a \in Addr :
                  /\ a = handle[f] /\ heap[a].live
                  /\ heap' = getRidOfPointer(heap, a)
          /\ (pc[f] = "as_copy" /\ pc'[f] = "idle") =>
                \E g \in Addr \cup {NullPtr} :
                  /\ g = AssignSource(f) /\ handle'[f] = g
                  /\ g # NullPtr =>
                        /\ heap[g].live /\ heap'[g].live
                        /\ heap'[g].refcount = heap[g].refcount + 1
                        /\ heap'[g].refcount >= Handles(g)']_vars

\* the container's destructor has returned
Destroyed == ~alive /\ \A d \in Frames : call[d].kind # "destroy"

\* C20: handles may outlive the container.  Once the container is being
\* destroyed, no step of the destructor reclaims a Snapshot that a Handle is
\* bound to, and no reclaimed Snapshot is touched; every Snapshot with a bound
\* Handle stays live with its payload as it was; and when the destructor has
\* returned the live Snapshots are exactly those with a bound Handle, each
\* counting its Handles, and each is reclaimed by the step that destroys its
\* last Handle.
C20_HandlesOutlive ==
  /\ [](~alive =>
          /\ ~fault
          /\ \A a \in Addr : Handles(a) >= 1 => heap[a].live
          /\ Destroyed =>
                \A a \in Addr :
                   /\ heap[a].live <=> Handles(a) >= 1
                   /\ heap[a].live => heap[a].refcount = Handles(a))
  /\ [][~alive =>
          \A a \in Addr :
             /\ (heap[a].live /\ heap'[a].live) => heap'[a].instance = heap[a].instance
             /\ (heap[a].live /\ ~heap'[a].live) =>
                   \/ Handles(a) = 1 /\ Handles(a)' = 0
                   \/ /\ Handles(a) = 0
                      /\ \E d \in Frames : pc[d] = "dt_release2" /\ pc'[d] = "idle"]_vars

\* the container is gone; one thread still reads the last current Snapshot
\* through one handle object and holds a superseded Snapshot with the other
C20_Witness ==
  \E f \in Frames :
    /\ Destroyed /\ Quiescent
    /\ handle[f] \in Addr /\ other[f] \in Addr /\ handle[f] # other[f]
    /\ heap[handle[f]].refcount = 1 /\ heap[other[f]].refcount = 1
    /\ sample = heap[handle[f]].instance

====
